---- MODULE Spec2Model ----
(***************************************************************************)
(* Model of the interactive surface plotter of miniTopSim                  *)
(* (src/work/Aufgabe3_plot/plot.py): the .srf reader, the key handler of   *)
(* _SurfacePlotter and its render pass on a matplotlib figure.             *)
(*                                                                         *)
(* A file is a sequence of lines, a line the sequence of tokens that       *)
(* line.split(' ') yields, a token a string.  A file name is the sequence  *)
(* of its parts between the dots (filename.split('.')).  List indices are  *)
(* 0-based in the code and 1-based in the sequences here: surfaceIndex     *)
(* keeps the code's 0-based value.                                         *)
(***************************************************************************)
EXTENDS Integers, Sequences, FiniteSets, Bags, TLC

\* ------------------------------------------------------------- bounds
MaxLines == 4       \* lines of a file read by the reader specification
MaxPts == 2         \* largest point count a header of such a file declares
MaxFrames == 3      \* surfaces of a file shown by the viewer specification

\* ------------------------------------------------------------- tokens
Numerals == <<"0", "1", "2", "3", "4", "5", "6", "7", "8", "9">>

IsNumeral(tok) == \E n \in 1..Len(Numerals) : Numerals[n] = tok

\* float(tok) and int(tok) of a token that is a decimal numeral
NumOf(tok) == (CHOOSE n \in 1..Len(Numerals) : Numerals[n] = tok) - 1

HeaderMarker == "surface:"

\* 'surface:' in line
IsHeader(line) == \E n \in 1..Len(line) : line[n] = HeaderMarker

\* seq[i] of a Python list or array, i 0-based, negative i counting from the end
PyHas(seq, i) == -Len(seq) <= i /\ i < Len(seq)
PyPos(seq, i) == IF i >= 0 THEN i + 1 ELSE Len(seq) + i + 1

\* filename.endswith(('.srf_save', '.srf'))
EndsWithSrf(name) ==
    /\ Len(name) >= 2
    /\ name[Len(name)] \in {"srf_save", "srf"}

SetMin(S) == CHOOSE a \in S : \A b \in S : a <= b
SetMax(S) == CHOOSE a \in S : \A b \in S : a >= b
Range(seq) == {seq[n] : n \in 1..Len(seq)}

\* ------------------------------------------------------------- state
VARIABLES
    filename,            \* self.filename, as the parts between its dots
    fileExists,          \* whether open(self.filename) finds the file
    fileLines,           \* the lines of the file, each a sequence of tokens
    timeList, nPointList, xPointsList, yPointsList,
    alreadyPlottedList,  \* None until the file is read
    surfaceIndex, forwardDirectory, length,
    aspectRatioAuto, deletePlotMode, stepSize, boundaryModeAuto,
    ylim,                \* self.ylim: no such attribute until b sets it
    lines,               \* the curves on the axes of the figure, a bag
    autoscaleY,          \* whether the axes fit their y-limits to the data
    axYlim,              \* the y-limits last set with plt.ylim
    axAspect,            \* the aspect of the axes, "auto" or "1"
    savefig,             \* the name the last call passed to plt.savefig
    pc,                  \* "constructed", "read", "show", "closed", "aborted"
    err,                 \* the exception the last call raised, or "none"
    key,                 \* event.key of the last key handler call
    renders              \* render passes started by the last call

fileVars == <<filename, fileExists, fileLines>>
dataVars == <<timeList, nPointList, xPointsList, yPointsList, length>>
navVars == <<surfaceIndex, forwardDirectory, stepSize>>
modeVars == <<aspectRatioAuto, deletePlotMode, boundaryModeAuto, ylim>>
axesVars == <<lines, autoscaleY, axYlim, axAspect>>
vars == <<fileVars, dataVars, navVars, modeVars, axesVars,
          alreadyPlottedList, savefig, pc, err, key, renders>>

\* What stands for a value that is not there.  Each is of the kind of the
\* values it stands among, and none of them is such a value: a y-limit is a
\* pair, a file name has at least one part, and the flags are read only
\* after the file is (pc), when they are a list.
NoAttribute == <<>>     \* self.ylim before [b] has assigned it
NoName == <<>>          \* no call of plt.savefig
NoList == <<>>          \* self.alreadyPlottedList = None
NoKey == "no key"       \* no key event yet
NoneKey == "None"       \* event.key = None

\* The content of memory that np.empty hands out without initialising it.
JunkVals == {0, 7}

\* ------------------------------------------------------------- reader
\* The lists and counters of read_srf_file before the first line.
ReadStart ==
    [timeList |-> <<>>, nPointList |-> <<>>, xPointsList |-> <<>>,
     yPointsList |-> <<>>, i |-> 0, j |-> 0, err |-> "none"]

\* np.empty(n): n slots, each holding what the memory held
NpEmpty(n, junk) == [k \in 1..n |-> junk[k]]

\* The body of the loop for a line that contains 'surface:'.
ReadHeader(st, line, junk) ==
    IF Len(line) < 2 THEN [st EXCEPT !.err = "IndexError"]
    ELSE IF ~IsNumeral(line[2]) THEN [st EXCEPT !.err = "ValueError"]
    ELSE
      LET st1 == [st EXCEPT !.timeList = Append(@, NumOf(line[2]))] IN
      IF Len(line) < 3 THEN [st1 EXCEPT !.err = "IndexError"]
      ELSE IF ~IsNumeral(line[3]) THEN [st1 EXCEPT !.err = "ValueError"]
      ELSE
        LET st2 == [st1 EXCEPT !.nPointList = Append(@, NumOf(line[3]))] IN
        IF ~PyHas(st2.nPointList, st.i) THEN [st2 EXCEPT !.err = "IndexError"]
        ELSE
          LET n == st2.nPointList[PyPos(st2.nPointList, st.i)] IN
          [st2 EXCEPT !.xPointsList = Append(@, NpEmpty(n, junk)),
                      !.yPointsList = Append(@, NpEmpty(n, junk)),
                      !.i = st.i + 1,
                      !.j = 0]

\* The data line read without j = j + 1: every point lands in slot 0.
ReadData_cursor_stuck(st, line) ==
    IF ~IsNumeral(line[1]) THEN [st EXCEPT !.err = "ValueError"]
    ELSE IF st.xPointsList = <<>> THEN [st EXCEPT !.err = "TypeError"]
    ELSE
      LET cur == Len(st.xPointsList) IN
      IF ~PyHas(st.xPointsList[cur], st.j) THEN [st EXCEPT !.err = "IndexError"]
      ELSE
        LET slot == PyPos(st.xPointsList[cur], st.j)
            st1 == [st EXCEPT !.xPointsList[cur][slot] = NumOf(line[1])]
        IN
        IF Len(line) < 2 THEN [st1 EXCEPT !.err = "IndexError"]
        ELSE IF ~IsNumeral(line[2]) THEN [st1 EXCEPT !.err = "ValueError"]
        ELSE [st1 EXCEPT !.yPointsList[cur][slot] = NumOf(line[2])]

\* The body of the loop for any other line.  xPoints and yPoints are the
\* arrays appended last, or None before the first header.
ReadData(st, line) ==
    IF ~IsNumeral(line[1]) THEN [st EXCEPT !.err = "ValueError"]
    ELSE IF st.xPointsList = <<>> THEN [st EXCEPT !.err = "TypeError"]
    ELSE
      LET cur == Len(st.xPointsList) IN
      IF ~PyHas(st.xPointsList[cur], st.j) THEN [st EXCEPT !.err = "IndexError"]
      ELSE
        LET slot == PyPos(st.xPointsList[cur], st.j)
            st1 == [st EXCEPT !.xPointsList[cur][slot] = NumOf(line[1])]
        IN
        IF Len(line) < 2 THEN [st1 EXCEPT !.err = "IndexError"]
        ELSE IF ~IsNumeral(line[2]) THEN [st1 EXCEPT !.err = "ValueError"]
        ELSE [st1 EXCEPT !.yPointsList[cur][slot] = NumOf(line[2]),
                         !.j = st.j + 1]

ReadLine(st, line, junk) ==
    IF IsHeader(line) THEN ReadHeader(st, line, junk) ELSE ReadData(st, line)

\* for line in file: ..., stopped by the first exception
RECURSIVE ReadLines(_, _, _)
ReadLines(st, rest, junk) ==
    IF rest = <<>> \/ st.err # "none" THEN st
    ELSE ReadLines(ReadLine(st, Head(rest), junk), Tail(rest), junk)

\* The whole of read_srf_file: the exception it raises ("none" when it
\* returns) and the lists as it leaves them.
ReadFile(junk) ==
    IF ~fileExists THEN [ReadStart EXCEPT !.err = "FileNotFoundError"]
    ELSE IF ~EndsWithSrf(filename)
      THEN [ReadStart EXCEPT !.err = "WrongFileExtensionError"]
    ELSE ReadLines(ReadStart, fileLines, junk)

\* ------------------------------------------------------------- figure
DefaultLim == <<0, 1>>

\* label='t = ' + str(self.timeList[self.surfaceIndex]) + 's'
Label(t) == <<"t = ", t, "s">>

\* The y-extent of the data of the curves; the limits of empty axes if none.
\* The margin matplotlib adds around the data is left out: it is the same
\* function of the data at every call.
DataLimY(curves) ==
    LET ys == UNION {Range(c.y) : c \in BagToSet(curves)} IN
    IF ys = {} THEN DefaultLim ELSE <<SetMin(ys), SetMax(ys)>>

\* ax.get_ylim() on axes holding `curves`
GetYlim(curves, auto, lim) == IF auto THEN DataLimY(curves) ELSE lim

\* plt.plot(x, y, label=...): one more curve on the axes
Plot(curves, x, y, label) ==
    curves (+) SetToBag({[x |-> x, y |-> y, label |-> label]})

\* Lines 241-244 without the test of the flag: the surface is plotted anew.
PlotCurrent_unguarded(curves, plotted, idx) ==
    Plot(curves, xPointsList'[PyPos(xPointsList', idx)],
         yPointsList'[PyPos(yPointsList', idx)],
         Label(timeList'[PyPos(timeList', idx)]))

\* The curves after update_plot has plotted the surface at index idx, given
\* the flags `plotted` (lines 241-244): no new curve when the surface is
\* flagged as plotted.
PlotCurrent(curves, plotted, idx) ==
    IF plotted[PyPos(plotted, idx)] = FALSE
      THEN Plot(curves, xPointsList'[PyPos(xPointsList', idx)],
                yPointsList'[PyPos(yPointsList', idx)],
                Label(timeList'[PyPos(timeList', idx)]))
      ELSE curves

\* The body of update_plot, run on the attributes as the caller has set them
\* (the primed variables) and on the flags `plotted` and the axes as they
\* were; `clear` is the test of line 232.
RenderPass(plotted, clear) ==
    LET plotted0 == IF clear
                      THEN [n \in 1..Len(plotted) |->
                              IF n <= length' THEN FALSE ELSE plotted[n]]
                      ELSE plotted
        lines0 == IF clear THEN EmptyBag ELSE lines
        auto0 == IF clear THEN TRUE ELSE autoscaleY
        lim0 == IF clear THEN DefaultLim ELSE axYlim
        aspect0 == IF clear THEN "auto" ELSE axAspect
        idx == surfaceIndex'
    IN
    /\ renders' = 1
    /\ IF ~PyHas(plotted0, idx)
         THEN /\ err' = "IndexError"
              /\ alreadyPlottedList' = plotted0
              /\ lines' = lines0
              /\ autoscaleY' = auto0
              /\ axYlim' = lim0
              /\ axAspect' = aspect0
         ELSE /\ lines' = PlotCurrent(lines0, plotted0, idx)
              /\ alreadyPlottedList' =
                   [plotted0 EXCEPT ![PyPos(plotted0, idx)] = TRUE]
              /\ IF boundaryModeAuto' # TRUE /\ ylim' = NoAttribute
                   THEN /\ err' = "AttributeError"
                        /\ autoscaleY' = auto0
                        /\ axYlim' = lim0
                        /\ axAspect' = aspect0
                   ELSE /\ err' = "none"
                        /\ autoscaleY' = IF boundaryModeAuto' # TRUE
                                           THEN FALSE ELSE auto0
                        /\ axYlim' = IF boundaryModeAuto' # TRUE
                                       THEN ylim' ELSE lim0
                        /\ axAspect' = IF aspectRatioAuto' # TRUE
                                         THEN "1" ELSE aspect0

\* update_plot with the figure cleared at every pass, whatever deletePlotMode.
update_plot_always_clears(plotted) == RenderPass(plotted, TRUE)

\* update_plot (lines 228-258)
update_plot(plotted) == RenderPass(plotted, deletePlotMode' = TRUE)

\* ------------------------------------------------------------- loading
\* plot_interactive, line 265: self.read_srf_file().  An exception ends the
\* run with the lists as the reader left them.
read_srf_file ==
    /\ pc = "constructed"
    /\ UNCHANGED <<fileVars, navVars, modeVars, axesVars, savefig, key, renders>>
    /\ \E junk \in [1..MaxPts -> JunkVals] :
         LET rd == ReadFile(junk) IN
         /\ timeList' = rd.timeList
         /\ nPointList' = rd.nPointList
         /\ xPointsList' = rd.xPointsList
         /\ yPointsList' = rd.yPointsList
         /\ err' = rd.err
         /\ IF rd.err # "none"
              THEN /\ length' = length
                   /\ alreadyPlottedList' = alreadyPlottedList
                   /\ pc' = "aborted"
              ELSE /\ length' = rd.i
                   /\ alreadyPlottedList' = [n \in 1..rd.i |-> FALSE]
                   /\ pc' = "read"

\* plot_interactive, lines 266-269: open the figure, connect the key
\* handler, render once and enter plt.show().  An exception of the render
\* pass ends the run.
plot_interactive ==
    /\ pc = "read"
    /\ UNCHANGED <<fileVars, dataVars, navVars, modeVars, savefig, key>>
    /\ update_plot(alreadyPlottedList)
    /\ pc' = IF err' = "none" THEN "show" ELSE "aborted"

\* ------------------------------------------------------------- keys
\* event.key.isnumeric(): the decimal digits and other numeric characters,
\* of which the superscript two stands here
SuperscriptTwo == "sup2"
IsNumeric(k) == IsNumeral(k) \/ k = SuperscriptTwo

\* [Space] with the wrap tested by > where the code tests >=.
space_index_past_end(idx, step, forward, len) ==
    IF forward = TRUE
      THEN IF idx + step > len THEN 0 ELSE idx + step
      ELSE IF idx - step <= -1 THEN len - 1 ELSE idx - step

\* [Space] wrapping by the remainder where the code resets to the boundary.
space_index_modulo(idx, step, forward, len) ==
    IF forward = TRUE
      THEN (idx + step) % len
      ELSE (idx - step) % len

\* The index after [Space] (lines 183-191).
space_index(idx, step, forward, len) ==
    IF forward = TRUE
      THEN IF idx + step >= len THEN 0 ELSE idx + step
      ELSE IF idx - step <= -1 THEN len - 1 ELSE idx - step

\* on_key_press(event), called by the figure for a key event while it is
\* shown: what holds of every branch.  The file and the surfaces read from
\* it are not assigned to.
on_key_press(k) ==
    /\ pc = "show"
    /\ key' = k
    /\ UNCHANGED <<fileVars, dataVars>>

\* What every branch of on_key_press without a render pass leaves alone.
NoRender ==
    /\ renders' = 0
    /\ UNCHANGED <<axesVars, alreadyPlottedList>>

\* [l] returning after the assignment, without a render pass.
key_l_returns ==
    /\ on_key_press("l")
    /\ savefig' = NoName
    /\ surfaceIndex' = length - 1
    /\ UNCHANGED <<forwardDirectory, stepSize, modeVars, pc>>
    /\ err' = "none"
    /\ NoRender

key_l ==
    /\ on_key_press("l")
    /\ savefig' = NoName
    /\ surfaceIndex' = length - 1
    /\ UNCHANGED <<forwardDirectory, stepSize, modeVars, pc>>
    /\ update_plot(alreadyPlottedList)

key_f ==
    /\ on_key_press("f")
    /\ savefig' = NoName
    /\ surfaceIndex' = 0
    /\ UNCHANGED <<forwardDirectory, stepSize, modeVars, pc>>
    /\ update_plot(alreadyPlottedList)

key_space ==
    /\ on_key_press(" ")
    /\ savefig' = NoName
    /\ surfaceIndex' = space_index(surfaceIndex, stepSize, forwardDirectory, length)
    /\ UNCHANGED <<forwardDirectory, stepSize, modeVars, pc>>
    /\ update_plot(alreadyPlottedList)

\* [r] assigning False instead of the negation: it only ever turns backward.
key_r_backward ==
    /\ on_key_press("r")
    /\ savefig' = NoName
    /\ forwardDirectory' = FALSE
    /\ UNCHANGED <<surfaceIndex, stepSize, modeVars, pc>>
    /\ err' = "none"
    /\ NoRender

key_r ==
    /\ on_key_press("r")
    /\ savefig' = NoName
    /\ forwardDirectory' = ~forwardDirectory
    /\ UNCHANGED <<surfaceIndex, stepSize, modeVars, pc>>
    /\ err' = "none"
    /\ NoRender

\* [a] toggling the attribute of [d], as a copied branch would.
key_a_toggles_delete ==
    /\ on_key_press("a")
    /\ savefig' = NoName
    /\ deletePlotMode' = ~deletePlotMode
    /\ UNCHANGED <<navVars, aspectRatioAuto, boundaryModeAuto, ylim, pc>>
    /\ update_plot(alreadyPlottedList)

key_a ==
    /\ on_key_press("a")
    /\ savefig' = NoName
    /\ aspectRatioAuto' = ~aspectRatioAuto
    /\ UNCHANGED <<navVars, deletePlotMode, boundaryModeAuto, ylim, pc>>
    /\ update_plot(alreadyPlottedList)

\* [d] without its return: the handler goes on to update_plot.
key_d_renders ==
    /\ on_key_press("d")
    /\ savefig' = NoName
    /\ deletePlotMode' = ~deletePlotMode
    /\ UNCHANGED <<navVars, aspectRatioAuto, boundaryModeAuto, ylim, pc>>
    /\ update_plot(alreadyPlottedList)

\* [d] clearing at once: the flags and the figure are reset in the handler.
key_d_clears ==
    /\ on_key_press("d")
    /\ savefig' = NoName
    /\ deletePlotMode' = ~deletePlotMode
    /\ UNCHANGED <<navVars, aspectRatioAuto, boundaryModeAuto, ylim, pc>>
    /\ err' = "none"
    /\ renders' = 0
    /\ alreadyPlottedList' = [i \in DOMAIN alreadyPlottedList |-> FALSE]
    /\ lines' = EmptyBag
    /\ UNCHANGED <<autoscaleY, axYlim, axAspect>>

key_d ==
    /\ on_key_press("d")
    /\ savefig' = NoName
    /\ deletePlotMode' = ~deletePlotMode
    /\ UNCHANGED <<navVars, aspectRatioAuto, boundaryModeAuto, ylim, pc>>
    /\ err' = "none"
    /\ NoRender

\* fname = self.filename.split('.'); fname = fname[0] + '.png'
PngName(name) == <<name[1], "png">>

key_s ==
    /\ on_key_press("s")
    /\ savefig' = PngName(filename)
    /\ UNCHANGED <<navVars, modeVars, pc>>
    /\ err' = "none"
    /\ NoRender

\* [b] with the test of line 212 inverted: the limits are read when the mode
\* goes back to automatic.
key_b_inverted ==
    /\ on_key_press("b")
    /\ savefig' = NoName
    /\ boundaryModeAuto' = ~boundaryModeAuto
    /\ ylim' = IF boundaryModeAuto' = TRUE
                 THEN GetYlim(lines, autoscaleY, axYlim)
                 ELSE ylim
    /\ UNCHANGED <<navVars, aspectRatioAuto, deletePlotMode, pc>>
    /\ update_plot(alreadyPlottedList)

key_b ==
    /\ on_key_press("b")
    /\ savefig' = NoName
    /\ boundaryModeAuto' = ~boundaryModeAuto
    /\ ylim' = IF boundaryModeAuto' = FALSE
                 THEN GetYlim(lines, autoscaleY, axYlim)
                 ELSE ylim
    /\ UNCHANGED <<navVars, aspectRatioAuto, deletePlotMode, pc>>
    /\ update_plot(alreadyPlottedList)

key_q ==
    /\ on_key_press("q")
    /\ savefig' = NoName
    /\ pc' = "closed"
    /\ UNCHANGED <<navVars, modeVars>>
    /\ err' = "none"
    /\ NoRender

\* The digit branch with * written for **: the step size is 2 * int(key).
key_numeric_times ==
    \E k \in {c \in Range(Numerals) \cup {SuperscriptTwo} : IsNumeric(c)} :
      /\ on_key_press(k)
      /\ savefig' = NoName
      /\ IF IsNumeral(k)
           THEN /\ stepSize' = 2 * NumOf(k)
                /\ err' = "none"
           ELSE /\ stepSize' = stepSize
                /\ err' = "ValueError"
      /\ UNCHANGED <<surfaceIndex, forwardDirectory, modeVars, pc>>
      /\ NoRender

\* elif(event.key.isnumeric() == True): self.stepSize = 2 ** int(event.key)
key_numeric ==
    \E k \in {c \in Range(Numerals) \cup {SuperscriptTwo} : IsNumeric(c)} :
      /\ on_key_press(k)
      /\ savefig' = NoName
      /\ IF IsNumeral(k)
           THEN /\ stepSize' = 2 ^ NumOf(k)
                /\ err' = "none"
           ELSE /\ stepSize' = stepSize
                /\ err' = "ValueError"
      /\ UNCHANGED <<surfaceIndex, forwardDirectory, modeVars, pc>>
      /\ NoRender

\* event.key of a key no branch names: a string that is not numeric falls
\* through the chain to update_plot; None has no isnumeric
key_other ==
    \E k \in {"x", NoneKey} :
      /\ on_key_press(k)
      /\ savefig' = NoName
      /\ UNCHANGED <<navVars, modeVars, pc>>
      /\ IF k = NoneKey
           THEN /\ err' = "AttributeError"
                /\ NoRender
           ELSE update_plot(alreadyPlottedList)

\* ------------------------------------------------------------- inputs
\* trench.srf, ./run.v2.srf_save, trench.txt, trenchsrf
FileNames ==
    { <<"trench", "srf">>, <<"", "/run", "v2", "srf_save">>,
      <<"trench", "txt">>, <<"trenchsrf">> }

HeaderLine(t, n) ==
    <<HeaderMarker, Numerals[t + 1], Numerals[n + 1], "x-positions", "y-positions">>
DataLine(x, y) == <<Numerals[x + 1], Numerals[y + 1]>>
BlankLine == <<"">>

\* The lines the files of the reader specification are made of.
LineKinds ==
    {HeaderLine(0, n) : n \in 0..MaxPts} \cup {HeaderLine(5, 1)}
      \cup {DataLine(0, 1), DataLine(1, 0)} \cup {BlankLine}

SeqsUpTo(S, n) == UNION {[1..m -> S] : m \in 0..n}

\* The file of n surfaces shown by the viewer specification: surface k has
\* time k-1 and the points (0, 0), (1, k+1).
RECURSIVE ViewFile(_)
ViewFile(n) ==
    IF n = 0 THEN <<>>
    ELSE ViewFile(n - 1) \o
           <<HeaderLine(n - 1, 2), DataLine(0, 0), DataLine(1, n + 1)>>

\* The state after _SurfacePlotter(filename), lines 108-121.
Constructed ==
    /\ timeList = <<>> /\ nPointList = <<>>
    /\ xPointsList = <<>> /\ yPointsList = <<>>
    /\ alreadyPlottedList = NoList
    /\ surfaceIndex = 0
    /\ forwardDirectory = TRUE
    /\ length = 0
    /\ aspectRatioAuto = TRUE
    /\ deletePlotMode = TRUE
    /\ stepSize = 1
    /\ boundaryModeAuto = TRUE
    /\ ylim = NoAttribute
    /\ lines = EmptyBag /\ autoscaleY = TRUE
    /\ axYlim = DefaultLim /\ axAspect = "auto"
    /\ savefig = NoName
    /\ pc = "constructed" /\ err = "none" /\ key = NoKey /\ renders = 0

\* The viewer is run on trench.srf with 0..MaxFrames surfaces, on every
\* other name with one surface, and on every name with no file behind it.
Init ==
    /\ filename \in FileNames
    /\ fileExists \in BOOLEAN
    /\ fileLines \in {ViewFile(n) : n \in 0..MaxFrames}
    /\ fileExists = FALSE => fileLines = <<>>
    /\ fileExists = TRUE /\ filename # <<"trench", "srf">> => fileLines = ViewFile(1)
    /\ Constructed

Next ==
    \/ read_srf_file
    \/ plot_interactive
    \/ key_l
    \/ key_f
    \/ key_space
    \/ key_r
    \/ key_a
    \/ key_d
    \/ key_s
    \/ key_b
    \/ key_q
    \/ key_numeric
    \/ key_other

Spec == Init /\ [][Next]_vars

\* The reader is run on trench.srf with every file of at most MaxLines
\* lines, and on the other names as the viewer is.
InitRead ==
    /\ filename \in FileNames
    /\ fileExists \in BOOLEAN
    /\ fileLines \in SeqsUpTo(LineKinds, MaxLines) \cup {ViewFile(1)}
    /\ fileExists = FALSE => fileLines = <<>>
    /\ fileExists = TRUE /\ filename # <<"trench", "srf">> => fileLines = ViewFile(1)
    /\ Constructed

NextRead == read_srf_file \/ plot_interactive

SpecRead == InitRead /\ [][NextRead]_vars

\* ------------------------------------------------------------- claims
Digits == Range(Numerals)
RenderKeys == {" ", "f", "l", "a", "b"}
QuietKeys == {"r", "d", "s", "q"} \cup Digits
BoundKeys == RenderKeys \cup QuietKeys

\* C1: once a file with at least one surface is loaded, surfaceIndex is an
\* index of the lists, 0 <= surfaceIndex <= length - 1, whatever keys are
\* pressed, for every step size and both directions.
C1_IndexInRange ==
    length >= 1 => 0 <= surfaceIndex /\ surfaceIndex <= length - 1

\* C1 witness: [Space] going backward with the largest step size has wrapped
\* to the last of three surfaces.
C1_Witness ==
    /\ pc = "show" /\ key = " " /\ length = 3
    /\ stepSize = 512 /\ forwardDirectory = FALSE
    /\ surfaceIndex = 2

\* C2: one [Space] going forward moves the index to index + stepSize if that
\* is below length and to exactly 0 otherwise; going backward it moves to
\* index - stepSize if that is at least 0 and to exactly length - 1
\* otherwise.  The overshoot is dropped, never carried over.
C2_AdvanceWraps ==
    [][key' = " " =>
         surfaceIndex' =
           IF forwardDirectory
             THEN IF surfaceIndex + stepSize < length
                    THEN surfaceIndex + stepSize ELSE 0
             ELSE IF surfaceIndex - stepSize >= 0
                    THEN surfaceIndex - stepSize ELSE length - 1]_vars

\* C2 witness: [Space] going forward by 4 on three surfaces has landed on 0;
\* from any of the indices 0..2 the sum overshoots by 1..3, which is dropped.
C2_Witness ==
    /\ pc = "show" /\ key = " " /\ err = "none"
    /\ length = 3 /\ stepSize = 4 /\ forwardDirectory = TRUE
    /\ surfaceIndex = 0

\* C3: a press of space, f, l, a or b runs exactly one render pass in the
\* handler call; a press of r, d, s, q or a digit runs none, and leaves the
\* flags of the plotted surfaces and the axes as they were.
C3_RedrawTable ==
    [][/\ key' \in RenderKeys => renders' = 1
       /\ key' \in QuietKeys =>
            /\ renders' = 0
            /\ UNCHANGED <<alreadyPlottedList, axesVars>>]_vars

\* C3 witness: [d] has switched back to showing the current surface only,
\* without a render pass, and the axes still hold two curves.
C3_Witness ==
    /\ pc = "show" /\ key = "d" /\ renders = 0
    /\ deletePlotMode = TRUE
    /\ BagCardinality(lines) = 2

\* C4 (as claimed): a key that is none of space, f, l, a, b, r, d, s, q or a
\* digit runs no render pass, raises nothing and changes neither the
\* attributes of the plotter nor the axes.
C4_OtherKeyIsNoOp ==
    [][key' \notin BoundKeys \cup {NoKey} =>
         /\ renders' = 0
         /\ err' = "none"
         /\ UNCHANGED <<navVars, modeVars, alreadyPlottedList, axesVars>>]_vars

\* The surfaces a file declares, read off its lines: the positions of the
\* header lines, the count a header declares and the data lines up to the
\* next header or the end of the file.
HeaderPositions(file) == {p \in 1..Len(file) : IsHeader(file[p])}
NextHeader(file, p) ==
    LET later == {q \in HeaderPositions(file) : q > p} IN
    IF later = {} THEN Len(file) + 1 ELSE SetMin(later)
DataCount(file, p) == NextHeader(file, p) - p - 1
Declared(file, p) == NumOf(file[p][3])
CountsMatch(file) ==
    \A p \in HeaderPositions(file) : DataCount(file, p) = Declared(file, p)
HeaderAt(file, i) ==
    CHOOSE p \in HeaderPositions(file) :
      Cardinality({q \in HeaderPositions(file) : q < p}) = i - 1
WellFormedFile(file) ==
    /\ Len(file) >= 1
    /\ IsHeader(file[1])
    /\ CountsMatch(file)
    /\ \A p \in 1..Len(file) :
         IF IsHeader(file[p])
           THEN Len(file[p]) >= 3 /\ IsNumeral(file[p][2]) /\ IsNumeral(file[p][3])
           ELSE Len(file[p]) = 2 /\ IsNumeral(file[p][1]) /\ IsNumeral(file[p][2])

\* C5 (as claimed): read_srf_file returns normally only if every header is
\* followed by exactly the number of data lines it declares.
C5_CountMismatchRejected ==
    pc \in {"read", "show"} => CountsMatch(fileLines)

\* C6: a file of N >= 1 blocks, each a header followed by exactly the
\* declared number of data lines, is read without an exception into N
\* surfaces: the i-th has the time of the i-th header, arrays of the declared
\* length and the k-th data line of its block in slot k; the reader leaves N
\* flags, all False.
C6_RoundTrip ==
    fileExists /\ EndsWithSrf(filename) /\ WellFormedFile(fileLines) =>
      LET N == Cardinality(HeaderPositions(fileLines)) IN
      /\ pc # "aborted"
      /\ pc # "constructed" =>
           /\ length = N
           /\ Len(timeList) = N /\ Len(nPointList) = N
           /\ Len(xPointsList) = N /\ Len(yPointsList) = N
           /\ \A i \in 1..N :
                LET p == HeaderAt(fileLines, i)
                    n == Declared(fileLines, p)
                IN /\ timeList[i] = NumOf(fileLines[p][2])
                   /\ nPointList[i] = n
                   /\ Len(xPointsList[i]) = n /\ Len(yPointsList[i]) = n
                   /\ \A k \in 1..n :
                        /\ xPointsList[i][k] = NumOf(fileLines[p + k][1])
                        /\ yPointsList[i][k] = NumOf(fileLines[p + k][2])
           /\ Len(alreadyPlottedList) = N
           /\ pc = "read" => \A n \in 1..N : alreadyPlottedList[n] = FALSE

\* C6 witness: two blocks of one point each have been read, the second
\* point into slot 0 of the second surface.
C6_Witness ==
    /\ pc = "read" /\ length = 2
    /\ timeList = <<0, 5>> /\ nPointList = <<1, 1>>
    /\ xPointsList = << <<0>>, <<1>> >>
    /\ yPointsList = << <<1>>, <<0>> >>
    /\ alreadyPlottedList = <<FALSE, FALSE>>

\* C7 (as claimed): read_srf_file never returns normally with no surface,
\* and no render pass starts on an empty list of surfaces.
C7_EmptyFileRejected ==
    /\ pc = "read" => length >= 1
    /\ renders >= 1 => length >= 1

\* C8 (as claimed): a file name that ends in neither .srf nor .srf_save
\* fails with WrongFileExtensionError and nothing else, with nothing read.
C8_WrongExtensionFirst ==
    ~EndsWithSrf(filename) /\ pc # "constructed" =>
      /\ pc = "aborted"
      /\ err = "WrongFileExtensionError"
      /\ timeList = <<>> /\ nPointList = <<>>
      /\ xPointsList = <<>> /\ yPointsList = <<>>
      /\ length = 0

\* C9: while all visited surfaces are kept (deletePlotMode False), a render
\* pass at an index whose surface is flagged as plotted leaves the flags and
\* the bag of curves on the axes as they were.
C9_RevisitDrawsNothing ==
    [][/\ pc = "show"
       /\ renders' = 1
       /\ deletePlotMode' = FALSE
       /\ PyHas(alreadyPlottedList, surfaceIndex')
       /\ alreadyPlottedList[PyPos(alreadyPlottedList, surfaceIndex')] = TRUE
       => /\ lines' = lines
          /\ alreadyPlottedList' = alreadyPlottedList]_vars

\* C9 witness: [l] has jumped to the last of three surfaces while all three
\* are on the axes, each once.
C9_Witness ==
    /\ pc = "show" /\ key = "l" /\ renders = 1
    /\ deletePlotMode = FALSE
    /\ length = 3 /\ surfaceIndex = 2
    /\ alreadyPlottedList = <<TRUE, TRUE, TRUE>>
    /\ BagCardinality(lines) = 3

\* C10: [a] and [b] leave surfaceIndex, forwardDirectory, deletePlotMode and
\* stepSize as they were; [a] also leaves boundaryModeAuto and ylim, and [b]
\* leaves aspectRatioAuto.
C10_ModeIsolation ==
    [][/\ key' \in {"a", "b"} =>
            UNCHANGED <<surfaceIndex, forwardDirectory, deletePlotMode, stepSize>>
       /\ key' = "a" =>
            /\ aspectRatioAuto' = ~aspectRatioAuto
            /\ UNCHANGED <<boundaryModeAuto, ylim>>
       /\ key' = "b" =>
            /\ boundaryModeAuto' = ~boundaryModeAuto
            /\ UNCHANGED aspectRatioAuto]_vars

\* C10 witness: [b] has fixed the y-limits while the index, the direction,
\* the step size and the overlay mode all differ from their initial values.
C10_Witness ==
    /\ pc = "show" /\ key = "b" /\ boundaryModeAuto = FALSE
    /\ surfaceIndex = 2 /\ forwardDirectory = FALSE
    /\ stepSize = 2 /\ deletePlotMode = FALSE
    /\ aspectRatioAuto = FALSE

\* The indices of the surfaces flagged as plotted.
Drawn(plotted) == {i \in 0..(Len(plotted) - 1) : plotted[i + 1] = TRUE}

StepSizes == {2 ^ d : d \in 0..9}

\* C11: a digit key d sets stepSize to 2^d and leaves the index, the
\* direction, the modes, the saved limits, the flags of the plotted surfaces
\* and the axes as they were; stepSize is 1 after construction and one of
\* 1, 2, 4, ..., 512 in every reachable state.
C11_StepSizePowerOfTwo ==
    /\ [](stepSize \in StepSizes /\ (pc \in {"constructed", "read"} => stepSize = 1))
    /\ [][key' \in Digits =>
            /\ stepSize' = 2 ^ NumOf(key')
            /\ UNCHANGED <<surfaceIndex, forwardDirectory, modeVars,
                           alreadyPlottedList, axesVars, pc>>]_vars

\* C11 witness: [9] has set the largest step size while the index, the
\* direction and the overlay mode differ from their initial values.
C11_Witness ==
    /\ pc = "show" /\ key = "9" /\ stepSize = 512
    /\ surfaceIndex = 1 /\ forwardDirectory = FALSE /\ deletePlotMode = FALSE

\* The curve plt.plot draws for the surface at index i.
CurveOf(i) ==
    [x |-> xPointsList[i + 1], y |-> yPointsList[i + 1],
     label |-> Label(timeList[i + 1])]

\* C12 (as claimed): after every render pass run with deletePlotMode True the
\* axes hold exactly one curve, the surface at surfaceIndex labelled with
\* its time, and exactly the flag of surfaceIndex is set, whatever was
\* plotted before.
C12_DeleteModeShowsCurrentOnly ==
    renders = 1 /\ deletePlotMode = TRUE =>
      /\ PyHas(timeList, surfaceIndex)
      /\ lines = SetToBag({CurveOf(surfaceIndex)})
      /\ Drawn(alreadyPlottedList) = {surfaceIndex}

\* Three surfaces, step size 1, going forward, all visited surfaces kept, at
\* index i with the set of flags d: the states the sequence d, space, space
\* passes through after loading.
Overlay(i, d) ==
    /\ pc = "show" /\ length = 3
    /\ stepSize = 1 /\ forwardDirectory = TRUE /\ deletePlotMode = FALSE
    /\ surfaceIndex = i /\ Drawn(alreadyPlottedList) = d

\* C13: as long as deletePlotMode stays False no key clears a flag of the
\* plotted surfaces, and after space, f, l, a or b the flagged surfaces are
\* those flagged before plus the one at surfaceIndex.  On a freshly loaded
\* file of three surfaces, [d] leaves {0} flagged, [Space] then gives {0, 1}
\* and a second [Space] gives {0, 1, 2}.
C13_OverlayOnlyGrows ==
    [][/\ pc = "show" /\ deletePlotMode = FALSE /\ deletePlotMode' = FALSE =>
            /\ Drawn(alreadyPlottedList) \subseteq Drawn(alreadyPlottedList')
            /\ key' \in RenderKeys =>
                 Drawn(alreadyPlottedList') =
                   Drawn(alreadyPlottedList) \cup {surfaceIndex'}
       /\ pc = "show" /\ key = NoKey /\ length = 3 /\ key' = "d" =>
            Overlay(0, {0})'
       /\ Overlay(0, {0}) /\ key' = " " => Overlay(1, {0, 1})'
       /\ Overlay(1, {0, 1}) /\ key' = " " => Overlay(2, {0, 1, 2})']_vars

\* C13 witness: the second [Space] after [d] has put the third curve on the
\* axes.
C13_Witness ==
    /\ Overlay(2, {0, 1, 2}) /\ key = " " /\ renders = 1
    /\ BagCardinality(lines) = 3
    /\ aspectRatioAuto = TRUE /\ boundaryModeAuto = TRUE

\* The file name with its extension replaced by png: the parts up to the last
\* '.', then 'png'.
WithPngExtension(name) == SubSeq(name, 1, Len(name) - 1) \o <<"png">>

C15_ToggleClearsLazily ==
    [][/\ key' = "d" =>
            /\ deletePlotMode' = ~deletePlotMode
            /\ renders' = 0
            /\ UNCHANGED <<navVars, aspectRatioAuto, boundaryModeAuto, ylim,
                           alreadyPlottedList, axesVars, pc>>
       /\ pc = "show" /\ renders' = 1 /\ deletePlotMode' = TRUE =>
            /\ Drawn(alreadyPlottedList') = {surfaceIndex'}
            /\ lines' = SetToBag({CurveOf(surfaceIndex')})
       /\ pc = "show" /\ renders' = 1 /\ deletePlotMode' = FALSE =>
            Drawn(alreadyPlottedList) \subseteq Drawn(alreadyPlottedList')]_vars

\* C15 witness: [d] has switched the overlay off and the three overlaid
\* curves are still on the axes, all three flags set.
C15_Witness ==
    /\ pc = "show" /\ key = "d" /\ renders = 0
    /\ deletePlotMode = TRUE
    /\ Drawn(alreadyPlottedList) = {0, 1, 2}
    /\ BagCardinality(lines) = 3

\* C16: [r] negates forwardDirectory and changes nothing else: the index,
\* the step size, the modes, the saved limits, the flags of the plotted
\* surfaces and the axes are as before; as the new value is the negation of
\* the old one, a second [r] brings back the direction and with it the state
\* before the first.
C16_ReverseOnlyFlips ==
    [][key' = "r" =>
         /\ forwardDirectory' = ~forwardDirectory
         /\ forwardDirectory' \in BOOLEAN
         /\ (~forwardDirectory') = forwardDirectory
         /\ renders' = 0
         /\ UNCHANGED <<surfaceIndex, stepSize, modeVars,
                        alreadyPlottedList, axesVars, pc>>]_vars

\* C16 witness: [r] has turned the direction backward in a state where the
\* index, the step size and all three modes differ from their initial
\* values and two curves are overlaid.
C16_Witness ==
    /\ pc = "show" /\ key = "r" /\ forwardDirectory = FALSE
    /\ surfaceIndex = 1 /\ stepSize = 4
    /\ deletePlotMode = FALSE /\ aspectRatioAuto = FALSE
    /\ boundaryModeAuto = FALSE
    /\ BagCardinality(lines) = 2

\* C17: the saved limits ylim are assigned by [b] when it switches
\* boundaryModeAuto from True to False, to the y-limits the axes have before
\* the render pass of that key, and by nothing else: no other key press
\* changes them.  Every render pass run with boundaryModeAuto False finds
\* them assigned (no AttributeError) and leaves the y-limits of the axes
\* equal to them and no longer following the data, with deletePlotMode True
\* or False and at whatever index.
C17_FixedLimitsHeld ==
    [][/\ key' = "b" /\ boundaryModeAuto = TRUE =>
            /\ boundaryModeAuto' = FALSE
            /\ ylim' = GetYlim(lines, autoscaleY, axYlim)
            /\ ylim' # NoAttribute
       /\ pc = "show" /\ ~(key' = "b" /\ boundaryModeAuto = TRUE) =>
            ylim' = ylim
       /\ renders' = 1 /\ boundaryModeAuto' = FALSE =>
            /\ err' = "none"
            /\ ylim' # NoAttribute
            /\ autoscaleY' = FALSE
            /\ GetYlim(lines', autoscaleY', axYlim') = ylim']_vars

\* C17 witness: the limits were saved on the first surface (y from 0 to 2);
\* [Space] has moved to the third surface (y from 0 to 4), shown alone, and
\* the axes still have the saved limits.
C17_Witness ==
    /\ pc = "show" /\ key = " " /\ renders = 1
    /\ boundaryModeAuto = FALSE /\ deletePlotMode = TRUE
    /\ surfaceIndex = 2
    /\ DataLimY(lines) = <<0, 4>>
    /\ ylim = <<0, 2>>
    /\ GetYlim(lines, autoscaleY, axYlim) = <<0, 2>>

\* C18 (as claimed): after every render pass the aspect of the axes is the
\* one aspectRatioAuto asks for: 1 when it is False, automatic when it is
\* True, with deletePlotMode True or False.
C18_AspectFollowsMode ==
    renders = 1 =>
      axAspect = IF aspectRatioAuto = TRUE THEN "auto" ELSE "1"

\* C19 (as claimed): after every render pass run with boundaryModeAuto True
\* the y-limits of the axes are not held at saved limits but fit the curves
\* on the axes, with deletePlotMode True or False.
C19_AutoLimitsFitData ==
    renders = 1 /\ boundaryModeAuto = TRUE =>
      GetYlim(lines, autoscaleY, axYlim) = DataLimY(lines)

\* C20: with at least one surface loaded, from the first render pass on the
\* flag of the surface at surfaceIndex is set, and its curve is on the axes,
\* in every state between two calls of the key handler, whatever keys were
\* pressed.
C20_CurrentIsDrawn ==
    pc = "show" /\ length >= 1 =>
      /\ surfaceIndex \in Drawn(alreadyPlottedList)
      /\ BagIn(CurveOf(surfaceIndex), lines)

\* C20 witness: with the overlay on, [l] has jumped from the second to the
\* third of three surfaces; the first was never drawn.
C20_Witness ==
    /\ pc = "show" /\ key = "l" /\ length = 3
    /\ deletePlotMode = FALSE /\ surfaceIndex = 2
    /\ Drawn(alreadyPlottedList) = {1, 2}
    /\ BagCardinality(lines) = 2

====
